---- MODULE Spec2Model ----
(***************************************************************************)
(* Model of server.js: the WhatsApp session proxy.  The state is the      *)
(* module-level Status Tracker (qrCodeData, connectionStatus, clientInfo, *)
(* isClientReady, client), the QR encodings and adapter operations that   *)
(* are awaited, and the HTTP response written by the last step.           *)
(***************************************************************************)
EXTENDS Integers, Sequences, FiniteSets, Bags, TLC

VARIABLES
    qrCodeData,        \* Null or Some(data URL)            (server.js:14)
    connectionStatus,  \* "disconnected" | "qr_pending" | "connected" (server.js:15)
    clientInfo,        \* Null or Some([name, phone, platform])  (server.js:16)
    isClientReady,     \* BOOLEAN                            (server.js:17)
    client,            \* Null or Some("Client")             (server.js:18)
    mongo,             \* "missing" | "connecting" | "connected" | "failed"
    pendingQr,         \* payload -> number of QRCode.toDataURL calls awaited
    inflight,          \* bag of the adapter operations that requests await
    out,               \* the HTTP response written by the last step, or Null
    called,            \* the adapter method invoked by the last step, or "none"
    settled,           \* the outcome the adapter delivered to the last step, or Null
    afterDisconnect,   \* history: "clean" since POST /api/disconnect last answered
                       \* success, "dirty" once a qr or ready event followed it,
                       \* "answered" once GET /api/status was handled while
                       \* "clean", "no" otherwise
    qrHistory          \* history of the qr events, kept by SpecQr: Null, or
                       \* Some of the payload of the most recent qr event and
                       \* whether an authenticated, ready or disconnected
                       \* event was handled after it

vars == <<qrCodeData, connectionStatus, clientInfo, isClientReady, client,
          mongo, pendingQr, inflight, out, called, settled, afterDisconnect,
          qrHistory>>

tracker == <<connectionStatus, qrCodeData, clientInfo, isClientReady>>

----------------------------------------------------------------------------
(* Bounds of the model *)

\* number of HTTP requests that can be suspended on the adapter at once
MaxReq == 2
\* number of QR encodings that can be awaited at once
MaxPending == 2

----------------------------------------------------------------------------
(* Values *)

Null == <<>>
Some(v) == <<v>>
IsNull(x) == x = Null
Val(x) == x[1]

\* payloads of the adapter's qr event
Payloads == {"qrA", "qrB"}

\* QRCode.toDataURL(qr, {width: 300, margin: 2}): a data URL of the payload
toDataURL(qr) == <<"data:image/png;base64", qr>>

\* client.info as the adapter reports it at the ready event
ClientInfos ==
    { Null,
      Some([pushname |-> Null, user |-> Some("51987654321"),
            platform |-> Some("android")]) }

\* x || 'Unknown'
OrUnknown(x) == IF IsNull(x) THEN "Unknown" ELSE Val(x)

\* the object the ready handler builds from client.info
InfoOf(info) ==
    IF IsNull(info)
    THEN [name |-> "Unknown", phone |-> "Unknown", platform |-> "Unknown"]
    ELSE [name     |-> OrUnknown(Val(info).pushname),
          phone    |-> OrUnknown(Val(info).user),
          platform |-> OrUnknown(Val(info).platform)]

RECURSIVE SumOver(_, _)
SumOver(f, S) ==
    IF S = {} THEN 0
    ELSE LET x == CHOOSE y \in S : TRUE IN f[x] + SumOver(f, S \ {x})

TotalPending == SumOver(pendingQr, Payloads)

----------------------------------------------------------------------------
(* Bootstrap *)

\* the client created and initialized whether or not MONGO_URI is set
MongoConnectedUnconditional ==
    /\ IsNull(client)
    /\ mongo \in {"missing", "connecting"}
    /\ mongo' = IF mongo = "connecting" THEN "connected" ELSE mongo
    /\ client' = Some("Client")
    /\ out' = Null
    /\ called' = "initialize"
    /\ settled' = Null
    /\ UNCHANGED <<tracker, pendingQr, inflight, afterDisconnect, qrHistory>>

\* mongoose.connect(MONGO_URI).then(...): the client is created, the event
\* handlers are registered and client.initialize() is called
MongoConnected ==
    /\ mongo = "connecting"
    /\ mongo' = "connected"
    /\ client' = Some("Client")
    /\ out' = Null
    /\ called' = "initialize"
    /\ settled' = Null
    /\ UNCHANGED <<tracker, pendingQr, inflight, afterDisconnect, qrHistory>>

\* .catch(err => console.error(...))
MongoFailed ==
    /\ mongo = "connecting"
    /\ mongo' = "failed"
    /\ out' = Null
    /\ called' = "none"
    /\ settled' = Null
    /\ UNCHANGED <<tracker, client, pendingQr, inflight, afterDisconnect, qrHistory>>

----------------------------------------------------------------------------
(* Adapter events: the handlers registered by setupClientEvents *)

Registered == ~IsNull(client)

NoOutput == out' = Null /\ called' = "none" /\ settled' = Null

\* history: a qr or ready event follows a successful POST /api/disconnect
Followed == afterDisconnect' = IF afterDisconnect = "clean" THEN "dirty" ELSE afterDisconnect

\* history: the qr event with this payload is the most recent one
QrSeen(qr) ==
    qrHistory' = IF IsNull(qrHistory) THEN Null
                 ELSE Some([payload |-> Some(qr), cleared |-> FALSE])

\* history: an authenticated, ready or disconnected event was handled
QrCleared ==
    qrHistory' = IF IsNull(qrHistory) THEN Null
                 ELSE Some([payload |-> Val(qrHistory).payload, cleared |-> TRUE])

OnLoadingScreen ==
    /\ Registered
    /\ NoOutput
    /\ UNCHANGED <<tracker, client, mongo, pendingQr, inflight, afterDisconnect, qrHistory>>

\* the qr handler up to its await
OnQr(qr) ==
    /\ Registered
    /\ TotalPending < MaxPending
    /\ connectionStatus' = "qr_pending"
    /\ pendingQr' = [pendingQr EXCEPT ![qr] = @ + 1]
    /\ NoOutput
    /\ Followed
    /\ QrSeen(qr)
    /\ UNCHANGED <<qrCodeData, clientInfo, isClientReady, client, mongo, inflight>>

\* the qr handler after its await: QRCode.toDataURL resolved
QrEncoded(qr) ==
    /\ pendingQr[qr] > 0
    /\ pendingQr' = [pendingQr EXCEPT ![qr] = @ - 1]
    /\ qrCodeData' = Some(toDataURL(qr))
    /\ NoOutput
    /\ UNCHANGED <<connectionStatus, clientInfo, isClientReady, client, mongo, inflight,
                   afterDisconnect, qrHistory>>

\* the qr handler after its await: QRCode.toDataURL rejected (catch: log only)
QrEncodeFailed(qr) ==
    /\ pendingQr[qr] > 0
    /\ pendingQr' = [pendingQr EXCEPT ![qr] = @ - 1]
    /\ NoOutput
    /\ UNCHANGED <<tracker, client, mongo, inflight, afterDisconnect, qrHistory>>

OnReady(info) ==
    /\ Registered
    /\ connectionStatus' = "connected"
    /\ isClientReady' = TRUE
    /\ qrCodeData' = Null
    /\ clientInfo' = Some(InfoOf(info))
    /\ NoOutput
    /\ Followed
    /\ QrCleared
    /\ UNCHANGED <<client, mongo, pendingQr, inflight>>

\* an authenticated handler that also reports the session connected
OnAuthenticatedConnects ==
    /\ Registered
    /\ connectionStatus' = "connected"
    /\ qrCodeData' = Null
    /\ NoOutput
    /\ UNCHANGED <<clientInfo, isClientReady, client, mongo,
                   pendingQr, inflight, afterDisconnect>>
    /\ QrCleared

OnAuthenticated ==
    /\ Registered
    /\ qrCodeData' = Null
    /\ NoOutput
    /\ UNCHANGED <<connectionStatus, clientInfo, isClientReady, client, mongo,
                   pendingQr, inflight, afterDisconnect>>
    /\ QrCleared

OnAuthFailure ==
    /\ Registered
    /\ connectionStatus' = "disconnected"
    /\ qrCodeData' = Null
    /\ NoOutput
    /\ UNCHANGED <<clientInfo, isClientReady, client, mongo, pendingQr, inflight,
                   afterDisconnect, qrHistory>>

OnDisconnected ==
    /\ Registered
    /\ connectionStatus' = "disconnected"
    /\ isClientReady' = FALSE
    /\ qrCodeData' = Null
    /\ clientInfo' = Null
    /\ NoOutput
    /\ UNCHANGED <<client, mongo, pendingQr, inflight, afterDisconnect>>
    /\ QrCleared

OnRemoteSessionSaved ==
    /\ Registered
    /\ NoOutput
    /\ UNCHANGED <<tracker, client, mongo, pendingQr, inflight, afterDisconnect, qrHistory>>

----------------------------------------------------------------------------
(* Request inputs *)

Undefined == [type |-> "undefined", chars |-> <<>>]
Str(chars) == [type |-> "string", chars |-> chars]
\* a JSON number in the body: truthy, but no string
Num == [type |-> "number", chars |-> <<>>]

\* !v for the values above
Falsy(v) == v.type = "undefined" \/ (v.type = "string" /\ v.chars = <<>>)

Digits == {"0", "1", "2", "3", "4", "5", "6", "7", "8", "9"}

Phone9 == <<"9", "8", "7", "6", "5", "4", "3", "2", "1">>
Phone9Dashed == <<"9", "8", "7", "-", "6", "5", "4", "-", "3", "2", "1">>
Phone11 == <<"5", "1">> \o Phone9

PhoneInputs == {Undefined, Str(<<>>), Num, Str(Phone9Dashed)}
MessageInputs == {Undefined, Str(<<"h", "i">>)}

IsDigit(c) == c \in Digits

\* the country code prepended to 9 digits or more
FormatPhoneAtLeast9(chars) ==
    LET formattedPhone == SelectSeq(chars, IsDigit)
    IN  IF Len(formattedPhone) >= 9 THEN <<"5", "1">> \o formattedPhone
        ELSE formattedPhone

\* phone.replace(/\D/g, ''), then the Peru country code for 9 digits
FormatPhone(chars) ==
    LET formattedPhone == SelectSeq(chars, IsDigit)
    IN  IF Len(formattedPhone) = 9 THEN <<"5", "1">> \o formattedPhone
        ELSE formattedPhone

ChatIdOf(formattedPhone) == formattedPhone \o <<"@", "c", ".", "u", "s">>

\* the locals POST /api/send keeps across its await
SendLocals(chars) ==
    [phone |-> chars, chatId |-> ChatIdOf(FormatPhone(chars)),
     formattedPhone |-> FormatPhone(chars)]

\* what client.sendMessage resolves with
SendResults ==
    { [id |-> Some([id |-> "MSG1"]), timestamp |-> 1700],
      [id |-> Null, timestamp |-> 1701] }

\* result.id?.id
MessageIdOf(result) == IF IsNull(result.id) THEN Null ELSE Some(Val(result.id).id)

\* the chat lists client.getChats resolves with
Chat1 == [id |-> "a@c.us", name |-> "Ana", isGroup |-> FALSE, unreadCount |-> 0,
          lastMessage |-> Some([body |-> Some(<<"h", "o", "l", "a">>),
                                timestamp |-> 1700, fromMe |-> TRUE]),
          timestamp |-> 1700]
Chat2 == [id |-> "g@g.us", name |-> "Grupo", isGroup |-> TRUE, unreadCount |-> 2,
          lastMessage |-> Null, timestamp |-> 1600]
Chat3 == [id |-> "b@c.us", name |-> "Beto", isGroup |-> FALSE, unreadCount |-> 1,
          lastMessage |-> Some([body |-> Null, timestamp |-> 1500, fromMe |-> FALSE]),
          timestamp |-> 1500]

ChatLists == {<<>>, <<Chat1, Chat2, Chat3>>}

ChatCap == 30
BodyCap == 100

Min(a, b) == IF a < b THEN a ELSE b

\* s.slice(0, n) and s.substring(0, n)
Slice(s, n) == SubSeq(s, 1, Min(n, Len(s)))

\* the object GET /api/chats maps a chat to
ChatSummary(chat) ==
    [id |-> chat.id, name |-> chat.name, isGroup |-> chat.isGroup,
     unreadCount |-> chat.unreadCount,
     lastMessage |->
        IF IsNull(chat.lastMessage) THEN Null
        ELSE Some([body |-> IF IsNull(Val(chat.lastMessage).body) THEN Null
                            ELSE Some(Slice(Val(Val(chat.lastMessage).body), BodyCap)),
                   timestamp |-> Val(chat.lastMessage).timestamp,
                   fromMe |-> Val(chat.lastMessage).fromMe]),
     timestamp |-> chat.timestamp]

\* the whole list, each chat mapped
RecentChatsUncut(chats) ==
    [i \in 1..Len(chats) |-> ChatSummary(chats[i])]

RecentChats(chats) ==
    LET cut == Slice(chats, ChatCap)
    IN  [i \in 1..Len(cut) |-> ChatSummary(cut[i])]

\* the message lists chat.fetchMessages({limit: 50}) resolves with
Msg1 == [id |-> Some([id |-> "M1"]), body |-> <<"h", "i">>, fromMe |-> TRUE,
         timestamp |-> 1700, type |-> "chat", hasMedia |-> FALSE]
Msg2 == [id |-> Null, body |-> <<>>, fromMe |-> FALSE,
         timestamp |-> 1699, type |-> "image", hasMedia |-> TRUE]

MessageLists == {<<>>, <<Msg1, Msg2>>}

MessageSummary(msg) ==
    [id |-> MessageIdOf(msg), body |-> msg.body, fromMe |-> msg.fromMe,
     timestamp |-> msg.timestamp, type |-> msg.type, hasMedia |-> msg.hasMedia]

FormattedMessages(messages) ==
    [i \in 1..Len(messages) |-> MessageSummary(messages[i])]

ChatIds == {"a@c.us"}

\* the adapter operations a request can be suspended on, with the value the
\* handler keeps across the await
Op(op, arg) == [op |-> op, arg |-> arg]

\* the operations the requests of PhoneInputs and ChatIds can await
Awaited ==
    {Op("sendMessage", Some(SendLocals(p.chars))) :
        p \in {q \in PhoneInputs : q.type = "string" /\ ~Falsy(q)}}
    \cup {Op("getChats", Null), Op("fetchMessages", Null), Op("logout", Null)}
    \cup {Op("getChatById", Some(c)) : c \in ChatIds}

TotalInflight == BagCardinality(inflight)

\* the outcome of an awaited adapter call: what it resolved with, as a
\* record, or the error it rejected with
Resolved(value) == Some([ok |-> TRUE, value |-> value])
Rejected == Some([ok |-> FALSE, value |-> [error |-> "adapter error"]])

----------------------------------------------------------------------------
(* HTTP responses *)

Resp(req, code, body) == Some([req |-> req, code |-> code, body |-> body])

ErrBody(error) == [success |-> FALSE, error |-> error]

\* one more request awaits operation a
Suspend(a) ==
    /\ TotalInflight < MaxReq
    /\ inflight' = inflight (+) SetToBag({a})

\* a request that awaits operation a
Suspended(a) == BagIn(a, inflight)

\* operation a settled for one of the requests awaiting it
Resume(a) == inflight' = inflight (-) SetToBag({a})

Frame == UNCHANGED <<tracker, client, mongo, pendingQr>>

NoHistory == UNCHANGED <<afterDisconnect, qrHistory>>

Respond(req, code, body) ==
    /\ out' = Resp(req, code, body)
    /\ called' = "none"

\* a handler that answers without awaiting anything and writes no state
Answer(req, code, body) ==
    /\ Respond(req, code, body)
    /\ settled' = Null
    /\ UNCHANGED inflight
    /\ Frame
    /\ NoHistory

\* a handler that calls the adapter and awaits the result
Await(op, arg) ==
    /\ Suspend(Op(op, arg))
    /\ out' = Null
    /\ called' = op
    /\ settled' = Null
    /\ Frame
    /\ NoHistory

\* the awaited operation a settled with outcome and the handler answers
Settle(a, outcome, req, code, body) ==
    /\ Respond(req, code, body)
    /\ settled' = outcome
    /\ Resume(a)
    /\ Frame
    /\ NoHistory

NotConnected == connectionStatus # "connected"

----------------------------------------------------------------------------
(* API endpoints *)

\* GET /
ApiRoot == Answer("root", 200, [text |-> "WhatsApp Service is running"])

\* GET /api/status
ApiStatus ==
    /\ Respond("status", 200, [status |-> connectionStatus, client |-> clientInfo])
    /\ afterDisconnect' = IF afterDisconnect = "clean" THEN "answered" ELSE "no"
    /\ UNCHANGED qrHistory
    /\ settled' = Null
    /\ UNCHANGED inflight
    /\ Frame

\* GET /api/qr without its connected branch
ApiQrStored ==
    Answer("qr", 200, [status |-> connectionStatus, qr |-> qrCodeData])

\* GET /api/qr
ApiQr ==
    IF connectionStatus = "connected"
    THEN Answer("qr", 200, [status |-> "connected", qr |-> Null, client |-> clientInfo])
    ELSE Answer("qr", 200, [status |-> connectionStatus, qr |-> qrCodeData])

\* POST /api/send with the connection check ahead of the body check
ApiSendStatusFirst(phone, message) ==
    IF NotConnected \/ ~isClientReady \/ IsNull(client)
    THEN Answer("send", 503, ErrBody("WhatsApp not connected. Please scan QR first."))
    ELSE IF Falsy(phone) \/ Falsy(message)
    THEN Answer("send", 400, ErrBody("Phone and message are required"))
    ELSE IF phone.type # "string"
    THEN Answer("send", 500, ErrBody("phone.replace is not a function"))
    ELSE Await("sendMessage", Some(SendLocals(phone.chars)))

\* POST /api/send, up to its await
ApiSend(phone, message) ==
    IF Falsy(phone) \/ Falsy(message)
    THEN Answer("send", 400, ErrBody("Phone and message are required"))
    ELSE IF NotConnected \/ ~isClientReady \/ IsNull(client)
    THEN Answer("send", 503, ErrBody("WhatsApp not connected. Please scan QR first."))
    ELSE IF phone.type # "string"
    THEN Answer("send", 500, ErrBody("phone.replace is not a function"))
    ELSE Await("sendMessage", Some(SendLocals(phone.chars)))

\* POST /api/send: client.sendMessage resolved
SendMessageResolved(a, result) ==
    /\ a.op = "sendMessage" /\ Suspended(a)
    /\ Settle(a, Resolved(result), "send", 200,
              [success |-> TRUE, messageId |-> MessageIdOf(result),
               timestamp |-> result.timestamp, to |-> Val(a.arg).formattedPhone])

\* POST /api/send whose catch block also marks the session disconnected
SendMessageRejectedResets(a) ==
    /\ a.op = "sendMessage" /\ Suspended(a)
    /\ Respond("send", 500, ErrBody("adapter error"))
    /\ settled' = Rejected
    /\ Resume(a)
    /\ connectionStatus' = "disconnected"
    /\ isClientReady' = FALSE
    /\ UNCHANGED <<qrCodeData, clientInfo, client, mongo, pendingQr>>
    /\ NoHistory

\* POST /api/send: client.sendMessage rejected
SendMessageRejected(a) ==
    /\ a.op = "sendMessage" /\ Suspended(a)
    /\ Settle(a, Rejected, "send", 500, ErrBody("adapter error"))

\* GET /api/chats, up to its await
ApiChats ==
    IF NotConnected \/ ~isClientReady \/ IsNull(client)
    THEN Answer("chats", 503, ErrBody("WhatsApp not connected"))
    ELSE Await("getChats", Null)

GetChatsResolved(a, chats) ==
    /\ a.op = "getChats" /\ Suspended(a)
    /\ Settle(a, Resolved([chats |-> chats]), "chats", 200,
              [success |-> TRUE, chats |-> RecentChats(chats)])

GetChatsRejected(a) ==
    /\ a.op = "getChats" /\ Suspended(a)
    /\ Settle(a, Rejected, "chats", 500, ErrBody("adapter error"))

\* GET /api/messages/:chatId that checks the client only
ApiMessagesUnguarded(chatId) ==
    IF IsNull(client)
    THEN Answer("messages", 503, ErrBody("WhatsApp not connected"))
    ELSE Await("getChatById", Some(chatId))

\* GET /api/messages/:chatId, up to its first await
ApiMessages(chatId) ==
    IF NotConnected \/ IsNull(client)
    THEN Answer("messages", 503, ErrBody("WhatsApp not connected"))
    ELSE Await("getChatById", Some(chatId))

\* client.getChatById resolved: the handler goes on to chat.fetchMessages
GetChatByIdResolved(a) ==
    /\ a.op = "getChatById" /\ Suspended(a)
    /\ inflight' = (inflight (-) SetToBag({a})) (+) SetToBag({Op("fetchMessages", Null)})
    /\ out' = Null
    /\ called' = "fetchMessages"
    /\ settled' = Resolved([chat |-> "Chat"])
    /\ Frame
    /\ NoHistory

GetChatByIdRejected(a) ==
    /\ a.op = "getChatById" /\ Suspended(a)
    /\ Settle(a, Rejected, "messages", 500, ErrBody("adapter error"))

FetchMessagesResolved(a, messages) ==
    /\ a.op = "fetchMessages" /\ Suspended(a)
    /\ Settle(a, Resolved([messages |-> messages]), "messages", 200,
              [success |-> TRUE, messages |-> FormattedMessages(messages)])

FetchMessagesRejected(a) ==
    /\ a.op = "fetchMessages" /\ Suspended(a)
    /\ Settle(a, Rejected, "messages", 500, ErrBody("adapter error"))

DisconnectedBody == [success |-> TRUE, message |-> "Disconnected successfully"]

\* the reset without its clientInfo assignment
ResetTrackerKeepsClient ==
    /\ connectionStatus' = "disconnected"
    /\ qrCodeData' = Null
    /\ afterDisconnect' = "clean"
    /\ UNCHANGED qrHistory
    /\ UNCHANGED <<clientInfo, isClientReady, client, mongo, pendingQr>>

\* the assignments POST /api/disconnect makes once logout is behind it
ResetTracker ==
    /\ connectionStatus' = "disconnected"
    /\ qrCodeData' = Null
    /\ clientInfo' = Null
    /\ afterDisconnect' = "clean"
    /\ UNCHANGED qrHistory
    /\ UNCHANGED <<isClientReady, client, mongo, pendingQr>>

\* POST /api/disconnect that starts client.logout and answers at once
ApiDisconnectNoAwait ==
    /\ out' = Resp("disconnect", 200, DisconnectedBody)
    /\ called' = IF IsNull(client) THEN "none" ELSE "logout"
    /\ settled' = Null
    /\ ResetTracker
    /\ UNCHANGED inflight

\* POST /api/disconnect, up to its await (no await when there is no client)
ApiDisconnect ==
    IF IsNull(client)
    THEN /\ Respond("disconnect", 200, DisconnectedBody)
         /\ settled' = Null
         /\ ResetTracker
         /\ UNCHANGED inflight
    ELSE Await("logout", Null)

\* POST /api/disconnect: client.logout resolved
LogoutResolved(a) ==
    /\ a.op = "logout" /\ Suspended(a)
    /\ Respond("disconnect", 200, DisconnectedBody)
    /\ settled' = Resolved([logout |-> "undefined"])
    /\ Resume(a)
    /\ ResetTracker

\* POST /api/disconnect that resets the tracker whether or not logout succeeded
LogoutRejectedResets(a) ==
    /\ a.op = "logout" /\ Suspended(a)
    /\ Respond("disconnect", 500, ErrBody("adapter error"))
    /\ settled' = Rejected
    /\ Resume(a)
    /\ connectionStatus' = "disconnected"
    /\ qrCodeData' = Null
    /\ clientInfo' = Null
    /\ UNCHANGED <<isClientReady, client, mongo, pendingQr>>
    /\ NoHistory

\* POST /api/disconnect: client.logout rejected
LogoutRejected(a) ==
    /\ a.op = "logout" /\ Suspended(a)
    /\ Settle(a, Rejected, "disconnect", 500, ErrBody("adapter error"))

----------------------------------------------------------------------------
(* Initial state: the module-level declarations, before mongoose.connect
   has settled *)

Init ==
    /\ qrCodeData = Null
    /\ connectionStatus = "disconnected"
    /\ clientInfo = Null
    /\ isClientReady = FALSE
    /\ client = Null
    /\ mongo \in {"missing", "connecting"}
    /\ pendingQr = [p \in Payloads |-> 0]
    /\ inflight = EmptyBag
    /\ out = Null
    /\ called = "none"
    /\ settled = Null
    /\ afterDisconnect = "no"
    /\ qrHistory = Null

----------------------------------------------------------------------------
(* The program *)

AdapterEvent ==
    \/ OnLoadingScreen
    \/ \E qr \in Payloads : OnQr(qr)
    \/ \E info \in ClientInfos : OnReady(info)
    \/ OnAuthenticated
    \/ OnAuthFailure
    \/ OnDisconnected
    \/ OnRemoteSessionSaved

QrEncoder ==
    \/ \E qr \in Payloads : QrEncoded(qr)
    \/ \E qr \in Payloads : QrEncodeFailed(qr)

HttpRequest ==
    \/ ApiRoot
    \/ ApiStatus
    \/ ApiQr
    \/ \E phone \in PhoneInputs, message \in MessageInputs : ApiSend(phone, message)
    \/ ApiChats
    \/ \E chatId \in ChatIds : ApiMessages(chatId)
    \/ ApiDisconnect

AdapterSettled ==
    \/ \E a \in BagToSet(inflight), result \in SendResults : SendMessageResolved(a, result)
    \/ \E a \in BagToSet(inflight) : SendMessageRejected(a)
    \/ \E a \in BagToSet(inflight), chats \in ChatLists : GetChatsResolved(a, chats)
    \/ \E a \in BagToSet(inflight) : GetChatsRejected(a)
    \/ \E a \in BagToSet(inflight) : GetChatByIdResolved(a)
    \/ \E a \in BagToSet(inflight) : GetChatByIdRejected(a)
    \/ \E a \in BagToSet(inflight), messages \in MessageLists : FetchMessagesResolved(a, messages)
    \/ \E a \in BagToSet(inflight) : FetchMessagesRejected(a)
    \/ \E a \in BagToSet(inflight) : LogoutResolved(a)
    \/ \E a \in BagToSet(inflight) : LogoutRejected(a)

Next ==
    \/ MongoConnected
    \/ MongoFailed
    \/ AdapterEvent
    \/ QrEncoder
    \/ HttpRequest
    \/ AdapterSettled

Spec == Init /\ [][Next]_vars

\* operation a settles, either way, for a request that awaits it
SettledFor(a) ==
    \/ \E result \in SendResults : SendMessageResolved(a, result)
    \/ SendMessageRejected(a)
    \/ \E chats \in ChatLists : GetChatsResolved(a, chats)
    \/ GetChatsRejected(a)
    \/ GetChatByIdResolved(a)
    \/ GetChatByIdRejected(a)
    \/ \E messages \in MessageLists : FetchMessagesResolved(a, messages)
    \/ FetchMessagesRejected(a)
    \/ LogoutResolved(a)
    \/ LogoutRejected(a)

\* the same program with the history of the qr events kept
InitQr ==
    /\ qrCodeData = Null
    /\ connectionStatus = "disconnected"
    /\ clientInfo = Null
    /\ isClientReady = FALSE
    /\ client = Null
    /\ mongo \in {"missing", "connecting"}
    /\ pendingQr = [p \in Payloads |-> 0]
    /\ inflight = EmptyBag
    /\ out = Null
    /\ called = "none"
    /\ settled = Null
    /\ afterDisconnect = "no"
    /\ qrHistory = Some([payload |-> Null, cleared |-> FALSE])

SpecQr == InitQr /\ [][Next]_vars

----------------------------------------------------------------------------
(* POST /api/send on a connected session, over all phone strings of a
   bounded length *)

\* longest phone string of the request body
MaxPhoneLen == 10

PhoneAlphabet == {"5", "9", "-"}

\* the non-empty phone strings
WidePhones == UNION {[1..n -> PhoneAlphabet] : n \in 1..MaxPhoneLen}

\* the state after mongoose.connect resolved and the adapter reported ready
InitConnected ==
    /\ qrCodeData = Null
    /\ connectionStatus = "connected"
    /\ clientInfo = Some(InfoOf(Null))
    /\ isClientReady = TRUE
    /\ client = Some("Client")
    /\ mongo = "connected"
    /\ pendingQr = [p \in Payloads |-> 0]
    /\ inflight = EmptyBag
    /\ out = Null
    /\ called = "none"
    /\ settled = Null
    /\ afterDisconnect = "no"
    /\ qrHistory = Null

\* one request per behaviour
FirstRequest == TotalInflight = 0 /\ IsNull(out)

NextSend ==
    \/ /\ FirstRequest
       /\ \E chars \in WidePhones : ApiSend(Str(chars), Str(<<"h", "i">>))
    \/ \E a \in BagToSet(inflight), result \in SendResults : SendMessageResolved(a, result)
    \/ \E a \in BagToSet(inflight) : SendMessageRejected(a)

SpecSend == InitConnected /\ [][NextSend]_vars

----------------------------------------------------------------------------
(* GET /api/chats on a connected session, over chat lists and message
   bodies longer than the caps *)

\* most chats client.getChats resolves with
MaxChats == 31
\* longest lastMessage.body
MaxBody == 101

\* a body of the given length, every character distinct
BodyOf(len) == [j \in 1..len |-> j]

\* the i-th chat of a list: with a body, without a last message, or with a
\* last message that has no body
WideChat(i, len) ==
    [id |-> i, name |-> "Ana", isGroup |-> FALSE, unreadCount |-> 0,
     lastMessage |->
        CASE i % 3 = 1 -> Some([body |-> Some(BodyOf(len)),
                                timestamp |-> 1700, fromMe |-> TRUE])
          [] i % 3 = 2 -> Null
          [] OTHER     -> Some([body |-> Null, timestamp |-> 1700, fromMe |-> FALSE]),
     timestamp |-> 1700]

\* n chats, in ascending or descending order of id
WideChatList(n, len, ascending) ==
    [i \in 1..n |-> WideChat(IF ascending THEN i ELSE n + 1 - i, len)]

WideChatLists ==
    {WideChatList(n, len, ascending) :
        n \in 0..MaxChats, len \in 0..MaxBody, ascending \in BOOLEAN}

NextChats ==
    \/ FirstRequest /\ ApiChats
    \/ \E a \in BagToSet(inflight), chats \in WideChatLists : GetChatsResolved(a, chats)
    \/ \E a \in BagToSet(inflight) : GetChatsRejected(a)

SpecChats == InitConnected /\ [][NextChats]_vars

----------------------------------------------------------------------------
(* Requests and their adapter operations, with the operations settling *)

\* a connected session that serves requests while the adapter reports ready,
\* auth_failure and disconnected; no QR code is requested
NextRequests ==
    \/ \E info \in ClientInfos : OnReady(info)
    \/ OnAuthFailure
    \/ OnDisconnected
    \/ HttpRequest
    \/ AdapterSettled

\* every awaited adapter operation settles and its continuation is run
FairRequests ==
    /\ InitConnected
    /\ [][NextRequests]_vars
    /\ \A a \in Awaited : WF_vars(SettledFor(a))

----------------------------------------------------------------------------
(* Properties *)

\* the last step wrote a response to request req with status code
Answered(req, code) ==
    /\ ~IsNull(out)
    /\ Val(out).req = req
    /\ Val(out).code = code

\* C1: at most one of qrCodeData and clientInfo is non-null, in every
\* reachable state
C1_AtMostOneNonNull == IsNull(qrCodeData) \/ IsNull(clientInfo)

\* C2: connectionStatus = 'connected' implies clientInfo non-null and
\* qrCodeData null, also when a QR encoding finishes after ready
C2_ConnectedInv ==
    connectionStatus = "connected" => ~IsNull(clientInfo) /\ IsNull(qrCodeData)

\* C3: connectionStatus = 'disconnected' implies qrCodeData and clientInfo
\* are both null
C3_DisconnectedInv ==
    connectionStatus = "disconnected" => IsNull(qrCodeData) /\ IsNull(clientInfo)

\* C4: connectionStatus = 'qr_pending' implies clientInfo null and
\* qrCodeData non-null or a QR encoding still in progress
C4_QrPendingInv ==
    connectionStatus = "qr_pending" =>
        /\ IsNull(clientInfo)
        /\ ~IsNull(qrCodeData) \/ TotalPending > 0

\* a send (with phone and message present), chats or messages request is handled
NeedsConnection ==
    \/ \E phone \in PhoneInputs, message \in MessageInputs :
          ~Falsy(phone) /\ ~Falsy(message) /\ ApiSend(phone, message)
    \/ ApiChats
    \/ \E chatId \in ChatIds : ApiMessages(chatId)

\* C5: a send (phone and message present), chats or messages request handled
\* while connectionStatus is not 'connected' is answered 503 in that step,
\* invokes no adapter method and suspends on none
C5_NotConnected503 ==
    [][(NotConnected /\ NeedsConnection) =>
          /\ Answered("send", 503)' \/ Answered("chats", 503)' \/ Answered("messages", 503)'
          /\ called' = "none"
          /\ inflight' = inflight]_vars

C5_Witness ==
    /\ Answered("send", 503)
    /\ connectionStatus = "qr_pending"
    /\ called = "none"
    /\ TotalInflight = 0

\* C6: a send request whose phone or message is missing is answered 400 in
\* every tracker state, with no adapter call
C6_Missing400 ==
    [][\A phone \in PhoneInputs, message \in MessageInputs :
          ((Falsy(phone) \/ Falsy(message)) /\ ApiSend(phone, message)) =>
              /\ Answered("send", 400)'
              /\ called' = "none"
              /\ inflight' = inflight]_vars

C6_Witness ==
    /\ Answered("send", 400)
    /\ connectionStatus = "disconnected"
    /\ called = "none"

\* C7: a GET /api/qr response written while connectionStatus = 'connected'
\* has qr = null, whatever qrCodeData holds
C7_QrNullWhenConnected ==
    (Answered("qr", 200) /\ connectionStatus = "connected") => IsNull(Val(out).body.qr)

C7_Witness ==
    /\ Answered("qr", 200)
    /\ connectionStatus = "connected"
    /\ ~IsNull(qrCodeData)
    /\ IsNull(Val(out).body.qr)

DisconnectedSnapshot == [status |-> "disconnected", client |-> Null]

\* C8 as stated: after a POST /api/disconnect that returned success, the next
\* GET /api/status returns status = 'disconnected' and client = null
C8_NextStatusDisconnected ==
    [][(afterDisconnect \in {"clean", "dirty"} /\ Answered("status", 200)') =>
          Val(out').body = DisconnectedSnapshot]_vars

\* C8 as amended: after a POST /api/disconnect that returned success, the next
\* GET /api/status returns status = 'disconnected' and client = null, provided
\* no qr or ready event was handled in between
C8_NextStatusDisconnectedNoEvent ==
    [][(afterDisconnect = "clean" /\ Answered("status", 200)') =>
          Val(out').body = DisconnectedSnapshot]_vars

C8_Witness ==
    /\ afterDisconnect = "answered"
    /\ Answered("status", 200)
    /\ Val(out).body = DisconnectedSnapshot
    /\ isClientReady

\* C9: when logout fails, POST /api/disconnect is answered 500 and neither
\* the step that starts the logout nor the step that handles its failure
\* changes connectionStatus, qrCodeData, clientInfo or isClientReady
C9_LogoutFailureKeepsTracker ==
    [][/\ (~IsNull(client) /\ ApiDisconnect) => (IsNull(out') /\ UNCHANGED tracker)
       /\ \A a \in Awaited :
             LogoutRejected(a) => (Answered("disconnect", 500)' /\ UNCHANGED tracker)]_vars

C9_Witness ==
    /\ Answered("disconnect", 500)
    /\ connectionStatus = "connected"
    /\ ~IsNull(clientInfo)
    /\ isClientReady

\* C10: a step of an HTTP handler changes connectionStatus, qrCodeData,
\* clientInfo or isClientReady only if it is the step of POST /api/disconnect
\* that follows a resolved logout
C10_OnlyDisconnectWrites ==
    [][(tracker' # tracker /\ (HttpRequest \/ AdapterSettled)) =>
          (Answered("disconnect", 200)' /\ \E a \in Awaited : LogoutResolved(a))]_vars

C10_Witness ==
    /\ Answered("send", 500)
    /\ called = "none"
    /\ connectionStatus = "connected"
    /\ isClientReady
    /\ ~IsNull(clientInfo)

\* C11: when MONGO_URI is absent no client is ever created or initialized,
\* connectionStatus stays 'disconnected' with clientInfo and qrCodeData null,
\* and the listener answers every send (valid body), chats and messages
\* request with 503
C11_NoUriNoClient ==
    /\ [](mongo = "missing" =>
            /\ IsNull(client)
            /\ called # "initialize"
            /\ connectionStatus = "disconnected"
            /\ IsNull(clientInfo)
            /\ IsNull(qrCodeData))
    /\ [][mongo = "missing" =>
            /\ mongo' = "missing"
            /\ NeedsConnection =>
                  /\ Answered("send", 503)' \/ Answered("chats", 503)'
                        \/ Answered("messages", 503)'
                  /\ called' = "none"
                  /\ inflight' = inflight]_vars

C11_Witness ==
    /\ mongo = "missing"
    /\ Answered("chats", 503)
    /\ IsNull(client)

\* the input with every non-digit character removed
RECURSIVE DigitsOnly(_)
DigitsOnly(chars) ==
    IF chars = <<>> THEN <<>>
    ELSE (IF Head(chars) \in Digits THEN <<Head(chars)>> ELSE <<>>)
            \o DigitsOnly(Tail(chars))

\* '51' in front exactly when there are 9 digits
Normalized(chars) ==
    IF Len(DigitsOnly(chars)) = 9 THEN <<"5", "1">> \o DigitsOnly(chars)
    ELSE DigitsOnly(chars)

\* C12: for every non-empty phone string sent while connected the adapter
\* destination is the normalized number followed by '@c.us' and the response
\* field `to` is the normalized number: the digits of the input, prefixed
\* with '51' exactly when there are 9 of them
C12_PhoneNormalized ==
    /\ [](\A a \in BagToSet(inflight) :
            a.op = "sendMessage" =>
                /\ Val(a.arg).formattedPhone = Normalized(Val(a.arg).phone)
                /\ Val(a.arg).chatId
                      = Normalized(Val(a.arg).phone) \o <<"@", "c", ".", "u", "s">>)
    /\ [][\A a \in BagToSet(inflight) :
            (a.op = "sendMessage" /\ ~IsNull(settled') /\ Val(settled').ok) =>
                /\ Answered("send", 200)'
                /\ Val(out').body.to = Normalized(Val(a.arg).phone)]_vars

\* an answered 9-digit number, which went out with the country code
C12_Witness ==
    /\ Answered("send", 200)
    /\ Len(Val(out).body.to) = 11
    /\ SubSeq(Val(out).body.to, 1, 2) = <<"5", "1">>
    /\ SubSeq(Val(out).body.to, 3, 4) = <<"9", "5">>

\* the first characters of `whole`, all of them or as many as the cap
IsCappedPrefix(part, whole, cap) ==
    /\ Len(part) <= cap
    /\ Len(part) <= Len(whole)
    /\ Len(part) = cap \/ Len(part) = Len(whole)
    /\ \A i \in 1..Len(part) : part[i] = whole[i]

\* the body of a chat's last message, Null when there is none
BodyIn(chat) ==
    IF IsNull(chat.lastMessage) THEN Null ELSE Val(chat.lastMessage).body

\* C13: a successful GET /api/chats response holds the first min(30, n)
\* chats of the adapter's list in the adapter's order, and each non-null
\* lastMessage.body in it is the first min(100, length) characters of the
\* adapter's body
C13_ChatsCapped ==
    (Answered("chats", 200) /\ ~IsNull(settled)) =>
        LET given == Val(settled).value.chats
            got   == Val(out).body.chats
        IN  /\ Len(got) <= ChatCap
            /\ Len(got) <= Len(given)
            /\ Len(got) = ChatCap \/ Len(got) = Len(given)
            /\ \A i \in 1..Len(got) :
                /\ got[i].id = given[i].id
                /\ IsNull(got[i].lastMessage) <=> IsNull(given[i].lastMessage)
                /\ IsNull(BodyIn(got[i])) <=> IsNull(BodyIn(given[i]))
                /\ ~IsNull(BodyIn(got[i])) =>
                      IsCappedPrefix(Val(BodyIn(got[i])), Val(BodyIn(given[i])), BodyCap)

\* a list longer than the cap with a body longer than the cap was answered
C13_Witness ==
    /\ Answered("chats", 200)
    /\ ~IsNull(settled)
    /\ Len(Val(settled).value.chats) > ChatCap
    /\ Len(Val(BodyIn(Val(settled).value.chats[1]))) > BodyCap
    /\ Len(Val(out).body.chats) = ChatCap
    /\ Len(Val(BodyIn(Val(out).body.chats[1]))) = BodyCap

\* C14: immediately after the auth_failure event is handled, from any
\* state, connectionStatus is 'disconnected', qrCodeData is null, clientInfo
\* is null and isClientReady is false
C14_AuthFailureResetsAll ==
    [][OnAuthFailure =>
          /\ connectionStatus' = "disconnected"
          /\ IsNull(qrCodeData')
          /\ IsNull(clientInfo')
          /\ ~isClientReady']_vars

\* C15: connectionStatus changes to 'connected' only in a step that handles
\* the ready event, and handling authenticated clears qrCodeData and leaves
\* connectionStatus, clientInfo and isClientReady unchanged
C15_ConnectedOnlyByReady ==
    [][/\ (connectionStatus # "connected" /\ connectionStatus' = "connected") =>
              \E info \in ClientInfos : OnReady(info)
       /\ OnAuthenticated =>
              /\ IsNull(qrCodeData')
              /\ UNCHANGED <<connectionStatus, clientInfo, isClientReady>>]_vars

\* the session is connected while a scan is still awaited by nobody: the
\* ready event was handled
C15_Witness ==
    /\ connectionStatus = "connected"
    /\ isClientReady
    /\ ~IsNull(clientInfo)
    /\ IsNull(qrCodeData)

\* C17: adapter operations issued by HTTP handlers are serialized, never two
\* of them in flight at once
C17_OperationsSerialized == TotalInflight <= 1

\* C19: isClientReady is true only if connectionStatus = 'connected'
C19_ReadyOnlyWhenConnected == isClientReady => connectionStatus = "connected"

\* C16: once an authenticated, ready or disconnected event has been
\* handled, qrCodeData stays null until a new qr event is received, also when
\* an encoding started by an earlier qr event completes afterwards; and
\* qrCodeData is non-null only while connectionStatus = 'qr_pending'
C16_QrStaysCleared ==
    /\ (~IsNull(qrHistory) /\ Val(qrHistory).cleared) => IsNull(qrCodeData)
    /\ ~IsNull(qrCodeData) => connectionStatus = "qr_pending"

\* C20: whenever qrCodeData is non-null and no QR encoding is in progress, it
\* is the encoding of the payload of the most recently received qr event
C20_QrIsLatestPayload ==
    (~IsNull(qrHistory) /\ ~IsNull(qrCodeData) /\ TotalPending = 0) =>
        /\ ~IsNull(Val(qrHistory).payload)
        /\ qrCodeData = Some(toDataURL(Val(Val(qrHistory).payload)))

\* the adapter methods the HTTP handlers call
HandlerOps == {"sendMessage", "getChats", "getChatById", "fetchMessages", "logout"}

\* the request that awaits an adapter method
ReqOf(op) ==
    CASE op = "sendMessage"   -> "send"
      [] op = "getChats"      -> "chats"
      [] op = "getChatById"   -> "messages"
      [] op = "fetchMessages" -> "messages"
      [] op = "logout"        -> "disconnect"

\* the response to the request that awaited operation a, after it settled
AnsweredFor(a) ==
    /\ ~IsNull(out)
    /\ ~IsNull(settled)
    /\ Val(out).req = ReqOf(a.op)
    /\ Val(out).code \in {200, 500}

\* C18: a request that starts an adapter operation issues its response only
\* after the operation settled and issues exactly one: 200 when it resolved
\* (for messages: when getChatById and then fetchMessages resolved), 500 when
\* it rejected; and when the operation settles the request is eventually
\* answered
C18_AnsweredOnceAfterSettling ==
    /\ [][/\ called' \in HandlerOps =>
                /\ IsNull(out')
                /\ \E a \in BagToSet(inflight') : a.op = called'
                /\ TotalInflight' = TotalInflight + (IF IsNull(settled') THEN 1 ELSE 0)
          /\ ~IsNull(settled') =>
                \E a \in BagToSet(inflight) :
                    IF Val(settled').ok /\ a.op = "getChatById"
                    THEN /\ IsNull(out')
                         /\ called' = "fetchMessages"
                    ELSE /\ inflight' = inflight (-) SetToBag({a})
                         /\ ~IsNull(out')
                         /\ Val(out').req = ReqOf(a.op)
                         /\ Val(out').code = IF Val(settled').ok THEN 200 ELSE 500
          /\ TotalInflight' < TotalInflight => ~IsNull(settled')
          /\ (IsNull(settled') /\ ~IsNull(out')) => inflight' = inflight]_vars
    /\ \A a \in Awaited : Suspended(a) ~> AnsweredFor(a)

\* a messages request answered after both of its operations resolved
C18_Witness ==
    /\ Answered("messages", 200)
    /\ ~IsNull(settled)
    /\ Val(settled).ok

====
